---------------------------- MODULE Spec2Model ----------------------------
(***************************************************************************)
(* A model of the ABNF grammar compiler and matcher of abnf-parser         *)
(* (src/lib/parser.js with its helpers in src/lib/core.js and              *)
(* src/lib/core/core.js, and the bundled Source$1 of src/unnamed/part_002).*)
(*                                                                         *)
(* Strings are sequences of character codes, so that toLowerCase,          *)
(* parseInt, slice and String.fromCharCode are computed, not looked up.    *)
(* A grammar text is the sequence of its lines, a line the sequence of the *)
(* fragments line.match( LEXER ) returns for it, already trimmed.          *)
(*                                                                         *)
(* The state is one JavaScript realm: the global binding `i` that          *)
(* RepetitionRule.test assigns without declaring it, whether the engine    *)
(* creates the result of Array.prototype.map through @@species, and the    *)
(* last call made on the exported API together with what it returned or    *)
(* threw.                                                                  *)
(***************************************************************************)
EXTENDS Integers, Sequences, FiniteSets, TLC

VARIABLES
  i,        \* the global object's property i, NoBinding when it has none
  species,  \* whether Array.prototype.map creates its result via @@species
  op,       \* the call in progress, "idle" between calls
  node,     \* test: the tree it is called on
  code,     \* test: the input sequence
  index,    \* test: the start index
  text,     \* Source, Source$1, Parser: the grammar text
  body,     \* prepare: the rule's body tokens
  registry, \* prepare: the registry ctx.rules it resolves against
  arg,      \* parseLiteral: the token; Parser: the entry argument
  generators, \* parse: the callbacks argument
  ret       \* what the call returned or threw

vars ==
  <<i, species, op, node, code, index, text, body, registry, arg, generators,
    ret>>

-----------------------------------------------------------------------------
(* Bounds of the model.                                                    *)

MaxLen == 3      \* longest input sequence handed to test
MaxDepth == 8    \* call depth after which the engine's stack is exhausted
MaxIter == 12    \* iterations after which a loop is reported as not ending

-----------------------------------------------------------------------------
(* JavaScript values.                                                      *)

\* `undefined` where a string is expected (code[ index ] past the end).
Undefined == <<-1>>

\* The number Infinity, as RepetitionRule.max holds it.
Infinity == -1

\* No global binding named i exists.
NoBinding == -1

Lt(a, b) == b = Infinity \/ a < b
Le(a, b) == b = Infinity \/ a <= b

\* What a call returns: a number, the value false, a thrown error, or no
\* return at all (the loop never ends).
Num(n) == [t |-> "number", n |-> n, e |-> "none"]
False == [t |-> "false", n |-> 0, e |-> "none"]
Throw(e) == [t |-> "throw", n |-> 0, e |-> e]
Hang == [t |-> "hang", n |-> 0, e |-> "none"]

Abrupt(r) == r.t \in {"throw", "hang"}

\* A result together with the global i the call leaves behind.
Ret(r, g) == [res |-> r, i |-> g]

\* The element of a one-element set: Only({e : x \in {v}}) is e with the
\* value v, computed once, named x.
Only(S) == CHOOSE x \in S : TRUE

\* String.prototype.toLowerCase on the ASCII range.
ToLowerCase(s) ==
  [k \in DOMAIN s |-> IF s[k] >= 65 /\ s[k] <= 90 THEN s[k] + 32 ELSE s[k]]

\* code[ index ], index counted from 0.
At(c, idx) == IF idx + 1 \in DOMAIN c THEN c[idx + 1] ELSE Undefined

-----------------------------------------------------------------------------
(* Combinator nodes.                                                       *)

OrRule(rules) == [type |-> "or", rules |-> rules]
AndRule(rules) == [type |-> "and", rules |-> rules]
OptionalRule(rule) == [type |-> "optional", rule |-> rule]
RepetitionRule(min, max, rule) ==
  [type |-> "repetition", min |-> min, max |-> max, rule |-> rule]
CaseSensitiveStringRule(str) == [type |-> "case-sensitive-string", str |-> str]
CaseInsensitiveStringRule(str) == [type |-> "case-insensitive-string", str |-> str]
\* A reference to the registry entry of a named rule: the entry is shared,
\* never copied, so the tree holds its key.
RuleRef(name) == [type |-> "named", name |-> name]

-----------------------------------------------------------------------------
(* test( code, index ) of every node class.  env holds the input sequence  *)
(* and the registry; g is the global i on entry (NoBinding when the global *)
(* object has no such property); d is the stack depth left.                *)

\* A case-sensitive literal that reports the characters of its string
\* as consumed, where the code reports the one element it compared.
CaseSensitiveStringRule_test_chars(n, env, idx, g) ==
  Ret(IF At(env.code, idx) = n.str THEN Num(Len(n.str)) ELSE False, g)

CaseSensitiveStringRule_test(n, env, idx, g) ==
  Ret(IF At(env.code, idx) = n.str THEN Num(1) ELSE False, g)

CaseInsensitiveStringRule_test(n, env, idx, g) ==
  LET el == At(env.code, idx)
  IN  IF el = Undefined
        THEN Ret(Throw("TypeError"), g)
        ELSE Ret(IF ToLowerCase(el) = n.str THEN Num(1) ELSE False, g)

RECURSIVE test(_, _, _, _, _)
RECURSIVE OrRule_loop(_, _, _, _, _, _)
RECURSIVE AndRule_loop(_, _, _, _, _, _, _)
RECURSIVE RepetitionRule_loop(_, _, _, _, _, _, _)

OrRule_loop(rules, k, env, idx, g, d) ==
  IF k > Len(rules)
    THEN Ret(False, g)
    ELSE LET c == test(rules[k], env, idx, g, d - 1)
         IN  IF Abrupt(c.res) \/ c.res # False
               THEN c
               ELSE OrRule_loop(rules, k + 1, env, idx, c.i, d)

OrRule_test(n, env, idx, g, d) == OrRule_loop(n.rules, 1, env, idx, g, d)

AndRule_loop(rules, k, len, env, idx, g, d) ==
  IF k > Len(rules)
    THEN Ret(Num(len), g)
    ELSE LET c == test(rules[k], env, idx + len, g, d - 1)
         IN  IF Abrupt(c.res) \/ c.res = False
               THEN c
               ELSE AndRule_loop(rules, k + 1, len + c.res.n, env, idx, c.i, d)

AndRule_test(n, env, idx, g, d) == AndRule_loop(n.rules, 1, 0, env, idx, g, d)

OptionalRule_test(n, env, idx, g, d) ==
  LET c == test(n.rule, env, idx, g, d - 1)
  IN  IF Abrupt(c.res) THEN c
      ELSE IF c.res = False THEN Ret(Num(0), c.i)
      ELSE c

\* The body of the for loop, entered with the global i at g.
RepetitionRule_loop(n, env, idx, g, len, d, fuel) ==
  IF ~Lt(g, n.max)
    THEN Ret(Num(len), g)
    ELSE IF fuel = 0
      THEN Ret(Hang, g)
      ELSE LET c == test(n.rule, env, idx + len, g, d - 1)
           IN  IF Abrupt(c.res)
                 THEN c
                 ELSE IF c.res = False
                   THEN Ret(IF c.i >= n.min /\ Le(c.i, n.max)
                              THEN Num(len) ELSE False, c.i)
                   ELSE RepetitionRule_loop(n, env, idx, c.i + 1,
                                            len + c.res.n, d, fuel - 1)

\* `i = 0` in a class body, which is strict code: a ReferenceError unless
\* the global object already has a property i, and then that property is
\* the loop counter.
RepetitionRule_test(n, env, idx, g, d) ==
  IF g = NoBinding
    THEN Ret(Throw("ReferenceError"), g)
    ELSE RepetitionRule_loop(n, env, idx, 0, 0, d, MaxIter)

Rule_test(n, env, idx, g, d) ==
  test(env.rules[n.name].rule, env, idx, g, d - 1)

test(n, env, idx, g, d) ==
  IF d = 0
    THEN Ret(Throw("RangeError"), g)
    ELSE CASE n.type = "case-sensitive-string" ->
                CaseSensitiveStringRule_test(n, env, idx, g)
           [] n.type = "case-insensitive-string" ->
                CaseInsensitiveStringRule_test(n, env, idx, g)
           [] n.type = "or" -> OrRule_test(n, env, idx, g, d)
           [] n.type = "and" -> AndRule_test(n, env, idx, g, d)
           [] n.type = "optional" -> OptionalRule_test(n, env, idx, g, d)
           [] n.type = "repetition" -> RepetitionRule_test(n, env, idx, g, d)
           [] n.type = "named" -> Rule_test(n, env, idx, g, d)

-----------------------------------------------------------------------------
(* String helpers, as the String and Number built-ins compute them.        *)

\* Number.NaN; no character code or count is negative.
NaN == -2

RECURSIVE IndexFrom(_, _, _)
IndexFrom(s, ch, k) ==
  IF k > Len(s) THEN -1
  ELSE IF s[k] = ch THEN k - 1
  ELSE IndexFrom(s, ch, k + 1)

\* s.indexOf( ch ): the 0-based position of the first ch, -1 without one.
IndexOf(s, ch) == IndexFrom(s, ch, 1)

\* s.slice( from, to ) with 0-based bounds, negative ones counted from the end.
Slice(s, from, to) ==
  LET n == Len(s)
      a == IF from < 0 THEN (IF n + from < 0 THEN 0 ELSE n + from)
           ELSE (IF from > n THEN n ELSE from)
      b == IF to < 0 THEN (IF n + to < 0 THEN 0 ELSE n + to)
           ELSE (IF to > n THEN n ELSE to)
  IN  IF a >= b THEN <<>> ELSE SubSeq(s, a + 1, b)

\* s.slice( from )
SliceFrom(s, from) == Slice(s, from, Len(s))

RECURSIVE Split(_, _)
\* s.split( ch ): the pieces between the occurrences of ch.
Split(s, ch) ==
  LET k == IndexOf(s, ch)
  IN  IF k = -1 THEN <<s>>
      ELSE <<Slice(s, 0, k)>> \o Split(SliceFrom(s, k + 1), ch)

IsDigit(c) == c >= 48 /\ c <= 57

\* The value of a character as a digit, 36 when it is none.
DigitVal(c) ==
  IF IsDigit(c) THEN c - 48
  ELSE IF c >= 97 /\ c <= 122 THEN c - 87
  ELSE IF c >= 65 /\ c <= 90 THEN c - 55
  ELSE 36

RECURSIVE ParseIntFrom(_, _, _, _)
ParseIntFrom(s, base, k, acc) ==
  IF k > Len(s) \/ DigitVal(s[k]) >= base
    THEN (IF k = 1 THEN NaN ELSE acc)
    ELSE ParseIntFrom(s, base, k + 1, acc * base + DigitVal(s[k]))

\* parseInt( s, base ): the longest prefix of digits of that base, NaN
\* without one.  An undefined base is 10.
ParseInt(s, base) ==
  IF s = Undefined THEN NaN
  ELSE ParseIntFrom(s, IF base = NaN THEN 10 ELSE base, 1, 0)

\* +( s ) for a string of decimal digits: the empty string is 0.
ToNumber(s) ==
  IF s = <<>> THEN 0
  ELSE IF \A k \in DOMAIN s : IsDigit(s[k]) THEN ParseIntFrom(s, 10, 1, 0)
  ELSE NaN

\* BASES[ marker ]: undefined for any other marker.
BASES(marker) ==
  IF marker = <<98>> THEN 2
  ELSE IF marker = <<100>> THEN 10
  ELSE IF marker = <<120>> THEN 16
  ELSE NaN

\* REPETITION = /^\d|(\d*\*\d*)$/ : the token starts with a digit, or ends
\* with a `*` followed by digits only.
REPETITION(token) ==
  \/ Len(token) > 0 /\ IsDigit(token[1])
  \/ \E k \in DOMAIN token :
       /\ token[k] = 42
       /\ \A m \in (k + 1)..Len(token) : IsDigit(token[m])

\* An outcome of the compiler's functions: a value, or a thrown error.
Ok(v) == [t |-> "ok", v |-> v, e |-> "none"]

-----------------------------------------------------------------------------
(* Range and the Literal Expander.                                         *)

\* new Range( min, max ): len = ( max - min ) / 1 + 1, and super( len )
\* throws a RangeError unless len is an array length.
Range(min, max) ==
  IF min = NaN \/ max = NaN \/ max - min + 1 < 0
    THEN Throw("RangeError")
    ELSE Ok([k \in 1..(max - min + 1) |-> min + (k - 1)])

\* range.map( code => String.fromCharCode( code ) ): the engine creates
\* the result with ArraySpeciesCreate, that is new Range( range.length ),
\* whose max is undefined; an engine without @@species creates an Array.
Range_map(range, sp) ==
  IF sp
    THEN Range(Len(range), NaN)
    ELSE Ok([k \in DOMAIN range |-> range[k] % 65536])

parseLiteral(str, sp) ==
  LET base == BASES(Slice(str, 1, 2)) IN
  IF IndexOf(str, 45) # 0
    THEN LET vals == Split(SliceFrom(str, 2), 45)
             nums == [k \in DOMAIN vals |-> ParseInt(vals[k], base)]
             min == nums[1]
             max == IF Len(nums) >= 2 THEN nums[2] ELSE NaN
             range == Range(min, max)
         IN  IF range.t = "throw" THEN range
             ELSE LET res == Range_map(range.v, sp)
                  IN  IF res.t = "throw" THEN res
                      ELSE Ok(CaseSensitiveStringRule(res.v))
    ELSE LET vals == Split(SliceFrom(str, 2), 46)
             codes == [k \in DOMAIN vals |-> ParseInt(vals[k], base)]
         IN  Ok(CaseSensitiveStringRule(
                  [k \in DOMAIN codes |-> IF codes[k] = NaN THEN 0
                                          ELSE codes[k] % 65536]))

parseRepetition(rep) ==
  [min |-> IF Slice(rep, 0, 1) = <<42>> THEN 0
           ELSE ToNumber(Slice(rep, 0, IndexOf(rep, 42))),
   max |-> IF Slice(rep, Len(rep) - 1, Len(rep)) = <<42>> THEN Infinity
           ELSE ToNumber(SliceFrom(rep, IndexOf(rep, 42) + 1))]

-----------------------------------------------------------------------------
(* Tokens and the Source classes.                                          *)

\* new Token( val, src, line, char ), as far as the compiler reads it.
Token(val, line) == [val |-> val, line |-> line]

\* nameFrom( token ): the rule name without its angle brackets.
nameFrom(token) ==
  IF Slice(token.val, 0, 1) = <<60>> THEN Slice(token.val, 1, -1) ELSE token.val

RECURSIVE Flatten(_, _)
\* tokensPerLine.reduce( ( all, line ) => all.concat( line ), [] )
Flatten(lines, k) ==
  IF k > Len(lines) THEN <<>>
  ELSE [m \in DOMAIN lines[k] |-> Token(lines[k][m], k - 1)]
         \o Flatten(lines, k + 1)

IsComment(token) == Slice(token.val, 0, 1) = <<59>>

\* ruleTokens.push( token ), ruleTokens being the array stored under the
\* key st.cur, or undefined.
Push(st, token) ==
  IF st.cur = Undefined
    THEN [st EXCEPT !.err = "TypeError"]
    ELSE [st EXCEPT !.map[st.cur] = Append(@, token)]

\* One turn of the grouping loop on a token and its successor.
GroupStep(st, token, next) ==
  IF next.val = <<61>>
    THEN IF ~st.defined
           THEN [st EXCEPT !.err = "TypeError"]
           ELSE [st EXCEPT !.cur = nameFrom(token),
                           !.map = (nameFrom(token) :> <<>>) @@ st.map]
    ELSE IF next.val = <<61, 47>>
      THEN IF ~st.defined
             THEN [st EXCEPT !.err = "TypeError"]
             ELSE IF nameFrom(token) \notin DOMAIN st.map
               THEN [st EXCEPT !.cur = Undefined, !.err = "TypeError"]
               ELSE Push([st EXCEPT !.cur = nameFrom(token)],
                         Token(<<47>>, next.line))
      ELSE IF Slice(token.val, 0, 1) # <<61>> /\ ~IsComment(token)
        THEN Push(st, token)
        ELSE st

RECURSIVE GroupSpan(_, _, _, _)
\* The turns lo .. hi of the loop, in order; a throw ends the loop.
GroupSpan(tokens, lo, hi, st) ==
  IF st.err # "none" \/ lo > hi THEN st
  ELSE IF lo = hi THEN GroupStep(st, tokens[lo], tokens[lo + 1])
  ELSE LET mid == (lo + hi) \div 2
       IN  GroupSpan(tokens, mid + 1, hi, GroupSpan(tokens, lo, mid, st))

\* The loop over tokens[ 0 .. length - 2 ], then the last token.
GroupScan(tokens, k, st) ==
  LET looped == GroupSpan(tokens, k, Len(tokens) - 1, st)
  IN  IF looped.err # "none" THEN looped
      ELSE IF tokens = <<>>
        THEN [looped EXCEPT !.err = "TypeError"]
        ELSE IF ~IsComment(tokens[Len(tokens)])
          THEN Push(looped, tokens[Len(tokens)])
          ELSE looped

\* The constructor's grouping of the tokens by rule; hasTokensByRule says
\* whether the constructor has assigned this.tokensByRule = {} before.
Grouping(lines, hasTokensByRule) ==
  LET tokens == Flatten(lines, 1)
      st == GroupScan(tokens, 1, [defined |-> hasTokensByRule, map |-> <<>>,
                                  cur |-> Undefined, err |-> "none"])
  IN  IF st.err # "none"
        THEN Throw(st.err)
        ELSE Ok([tokens |-> tokens, tokensByRule |-> st.map,
                 hasTokensByRule |-> st.defined])

\* new Source( src ) of lib/parser.js, which never assigns tokensByRule.
ABNFSource(lines) == Grouping(lines, FALSE)

\* The same constructor as bundled in part_001, which does.
ABNFSource_bundled(lines) == Grouping(lines, TRUE)

\* new Source$1( src, path ): comments filtered out, then the count.
Source1(lines) ==
  LET allTokens == Flatten(lines, 1)
      tokens == SelectSeq(allTokens, LAMBDA tok : ~IsComment(tok))
  IN  IF Len(tokens) < 3
        THEN Throw("SyntaxError")
        ELSE Ok([tokens |-> tokens])

-----------------------------------------------------------------------------
(* The resolver: parseGroup and parseSubRule over a rule's tokens, which   *)
(* are plain strings here, and the registry ctx.rules.                     *)

\* The names lib/parser.js imports or declares at module level.
ModuleBindings ==
  {"Range", "SyntaxError", "Token", "LEXER", "RULE", "REPETITION",
   "WHITESPACE", "ANY_WHITESPACE", "NEWLINE", "EOF", "BASES", "coreRules",
   "nameFrom", "Source", "parseGroup", "parseSubRule", "parseRepetition",
   "parseLiteral", "Parser", "Rule", "OrRule", "AndRule", "OptionalRule",
   "RepetitionRule", "CaseSensitiveStringRule", "CaseInsensitiveStringRule"}

\* A thrown error whose message quotes an identifier of the grammar.
ThrowNaming(e, id) == [t |-> "throw", n |-> 0, e |-> e, id |-> id]

\* throw new ABNFSyntaxError( "Undefined rule: '" + token + "'" ): the
\* name ABNFSyntaxError is looked up first.
ThrowUndefinedRule(token) ==
  IF "ABNFSyntaxError" \in ModuleBindings
    THEN ThrowNaming("ABNFSyntaxError", token)
    ELSE Throw("ReferenceError")

\* What the parsers hand back: the outcome and the tokens left in ctx.
Parsed(r, rest) == [r |-> r, rest |-> rest]

\* The end of parseGroup: the parts become And nodes unless they hold one
\* rule, and an Or node unless there is one part.
Collapse(parts) ==
  LET ps == [k \in DOMAIN parts |->
               IF Len(parts[k]) = 1 THEN parts[k][1] ELSE AndRule(parts[k])]
  IN  IF Len(ps) = 1 THEN ps[1] ELSE OrRule(ps)

RECURSIVE parseGroup_loop(_, _, _, _, _, _)
RECURSIVE parseSubRule(_, _, _)

parseGroup(tokens, rules, endToken, sp) ==
  parseGroup_loop(tokens, rules, endToken, <<>>, <<>>, sp)

parseGroup_loop(tokens, rules, endToken, parts, part, sp) ==
  IF tokens = <<>>
    THEN Parsed(Ok(Collapse(Append(parts, part))), tokens)
    ELSE IF Head(tokens) = <<47>>
      THEN parseGroup_loop(Tail(tokens), rules, endToken,
                           Append(parts, part), <<>>, sp)
      ELSE IF Head(tokens) = endToken
        THEN Parsed(Ok(Collapse(Append(parts, part))), Tail(tokens))
        ELSE Only({IF s.r.t = "throw" THEN s
                   ELSE parseGroup_loop(s.rest, rules, endToken, parts,
                                        Append(part, s.r.v), sp) :
                   s \in {parseSubRule(tokens, rules, sp)}})

parseSubRule(tokens, rules, sp) ==
  IF tokens = <<>>
    THEN Parsed(Throw("TypeError"), tokens)
    ELSE LET token == Head(tokens)
             rest == Tail(tokens)
         IN
    IF token = <<40>>
      THEN parseGroup(rest, rules, <<41>>, sp)
    ELSE IF token = <<91>>
      THEN Only({IF g.r.t = "throw" THEN g
                 ELSE Parsed(Ok(OptionalRule(g.r.v)), g.rest) :
                 g \in {parseGroup(rest, rules, <<93>>, sp)}})
    ELSE IF Slice(token, 0, 1) = <<34>>
      THEN Parsed(Ok(CaseInsensitiveStringRule(Slice(token, 1, -1))), rest)
    ELSE IF Slice(token, 0, 1) = <<39>>
      THEN Parsed(Ok(CaseSensitiveStringRule(Slice(token, 1, -1))), rest)
    ELSE IF Slice(token, 0, 1) = <<37>>
      THEN Parsed(parseLiteral(token, sp), rest)
    ELSE IF REPETITION(token)
      THEN Only({IF sub.r.t = "throw" THEN sub
                 ELSE Parsed(Ok(RepetitionRule(repetitions.min,
                                               repetitions.max, sub.r.v)),
                             sub.rest) :
                 repetitions \in {parseRepetition(token)},
                 sub \in {parseSubRule(rest, rules, sp)}})
    ELSE IF ToLowerCase(token) \in DOMAIN rules
      THEN Parsed(Ok(RuleRef(ToLowerCase(token))), rest)
      ELSE Parsed(ThrowUndefinedRule(token), rest)

-----------------------------------------------------------------------------
(* Rule and Parser.                                                        *)

\* new Rule( name, tokens, srcLine, index ): name.toLowerCase() throws a
\* TypeError on an undefined name.
Rule(name, tokens, idx) ==
  IF name = Undefined
    THEN Throw("TypeError")
    ELSE Ok([type |-> "named", name |-> ToLowerCase(name),
             originalName |-> name, allTokens |-> tokens,
             tokens |-> SliceFrom(tokens, 2), index |-> idx,
             rule |-> Undefined])

\* rule.prepare( rules )
prepare(rule, rules, sp) == parseGroup(rule.tokens, rules, Undefined, sp).r

\* tokens[ 0 ] where tokens is one element of src.tokens: a Token object,
\* which has no property 0.
FirstOf(tokens) == Undefined

RECURSIVE Register(_, _, _, _)
\* this.src.tokens.forEach( ... ): one Rule per element, stored under the
\* name as written.
Register(srcTokens, k, rules, allRules) ==
  IF k > Len(srcTokens)
    THEN Ok([rules |-> rules, allRules |-> allRules])
    ELSE LET name == FirstOf(srcTokens[k])
             rule == Rule(name, srcTokens[k], k - 1)
         IN  IF rule.t = "throw" THEN rule
             ELSE Register(srcTokens, k + 1,
                           [x \in DOMAIN rules \cup {name} |->
                              IF x = name THEN rule.v ELSE rules[x]],
                           Append(allRules, name))

RECURSIVE PrepareAll(_, _, _, _)
\* this.allRules.forEach( rule => rule.prepare( this.rules ) )
PrepareAll(allRules, k, rules, sp) ==
  IF k > Len(allRules)
    THEN Ok(rules)
    ELSE Only({IF r.t = "throw" THEN r
               ELSE PrepareAll(allRules, k + 1,
                               [rules EXCEPT ![allRules[k]].rule = r.v], sp) :
               r \in {prepare(rules[allRules[k]], rules, sp)}})

\* new Parser( src, entry )
ABNFParser(lines, entry, sp) ==
  Only({IF src.t = "throw" THEN src
        ELSE Only({IF reg.t = "throw" THEN reg
                   ELSE Only({IF done.t = "throw" THEN done
                              ELSE Ok([type |-> "parser", rules |-> done.v,
                                       entry |-> IF entry # Undefined
                                                   THEN entry
                                                   ELSE FirstOf(src.v.tokens[1])]) :
                              done \in {PrepareAll(reg.v.allRules, 1,
                                                   reg.v.rules, sp)}}) :
                   reg \in {Register(src.v.tokens, 1, <<>>, <<>>)}}) :
        src \in {ABNFSource(lines)}})

-----------------------------------------------------------------------------
(* parse and its callbacks.                                                *)

\* The callbacks argument of parse: absent, or an object with these keys.
NoGenerators == [given |-> FALSE, keys |-> {}]
Callbacks(keys) == [given |-> TRUE, keys |-> keys]

\* "before " + name
BeforeKey(name) == <<98, 101, 102, 111, 114, 101, 32>> \o name

\* The values the callbacks hand back, and null.
Null == [t |-> "null"]
Pre(name) == [t |-> "pre", name |-> name]
Post(name, child, nd) == [t |-> "post", name |-> name, child |-> child, node |-> nd]

\* One callback invocation: the key it is registered under and what it
\* is called with.
Invoked(key, args) == [key |-> key, args |-> args]

RECURSIVE Rule_parse(_, _, _, _, _)
\* rule.parse( code, generators ): trace lists the callbacks invoked so
\* far.  Only ABNFRule has a parse method, so this.rule.parse is not a
\* function unless the child is a reference to a rule.
Rule_parse(rule, rules, gen, trace, d) ==
  IF d = 0 THEN [r |-> Throw("RangeError"), trace |-> trace]
  ELSE IF ~gen.given THEN [r |-> Throw("TypeError"), trace |-> trace]
  ELSE
    LET before == BeforeKey(rule.name)
        nd == IF before \in gen.keys THEN Pre(rule.name) ELSE Null
        t1 == IF before \in gen.keys
                THEN Append(trace, Invoked(before, <<rule.name>>))
                ELSE trace
    IN  Only({IF child.r.t = "throw" THEN child
              ELSE IF rule.name \in gen.keys
                THEN [r |-> Ok(Post(rule.name, child.r.v, nd)),
                      trace |-> Append(child.trace,
                                       Invoked(rule.name, <<child.r.v, nd>>))]
                ELSE [r |-> Throw("TypeError"), trace |-> child.trace] :
              child \in {IF rule.rule.type = "named"
                           THEN Rule_parse(rules[rule.rule.name], rules, gen,
                                           t1, d - 1)
                           ELSE [r |-> Throw("TypeError"), trace |-> t1]}})

-----------------------------------------------------------------------------
(* The inputs the calls are made with.                                     *)

\* Strings, as their character codes.
s_a == <<97>>    \* a
s_A == <<65>>    \* A
s_b == <<98>>    \* b
s_test == <<116, 101, 115, 116>>    \* test
s_TeSt == <<84, 101, 83, 116>>    \* TeSt
s_TEST == <<84, 69, 83, 84>>    \* TEST

\* A JavaScript string handed to test as the input: its elements are its
\* characters.
StringInput(str) == [k \in DOMAIN str |-> <<str[k]>>]

RECURSIVE SeqsUpTo(_, _)
\* The sequences over S of at most n elements.
SeqsUpTo(S, n) ==
  IF n = 0 THEN {<<>>}
  ELSE LET shorter == SeqsUpTo(S, n - 1)
       IN  shorter \cup {Append(q, x) : q \in {p \in shorter : Len(p) = n - 1}, x \in S}

\* Input sequences: token sequences over one-character elements, a word as
\* a single element, the words as plain strings, and the string aaaa.
Codes ==
  SeqsUpTo({s_a, s_b}, MaxLen)
    \cup {<<s_A>>, <<s_a, s_A>>}
    \cup {<<x>> : x \in {s_test, s_TeSt, s_TEST}}
    \cup {StringInput(x) : x \in {s_test, s_TeSt}}
    \cup {<<s_a, s_a, s_a, s_a>>}

Literals ==
  {CaseSensitiveStringRule(s_a), CaseInsensitiveStringRule(s_a),
   CaseInsensitiveStringRule(s_b)}

WordLiterals ==
  {CaseSensitiveStringRule(x) : x \in {s_test, s_TeSt}}
    \cup {CaseInsensitiveStringRule(x) : x \in {s_A, s_test, s_TeSt}}

Bounds == {b \in (0..2) \X {1, 2, 3, Infinity} : Le(b[1], b[2])}

\* Repetitions of a Repetition of a sequence that starts with a
\* Repetition: three counts, none of which can be met by the empty input.
SharedCounterNodes ==
  {RepetitionRule(1, m, RepetitionRule(1, 2,
     AndRule(<<RepetitionRule(1, 1, CaseSensitiveStringRule(s_a)),
               CaseSensitiveStringRule(s_b)>>))) : m \in {3, Infinity}}

\* The trees test is called on: every literal, every combinator over
\* literals, and combinators nested in one another.
Nodes ==
  Literals \cup WordLiterals
    \cup {OrRule(<<x, y>>) : x \in Literals, y \in Literals}
    \cup {AndRule(<<x, y>>) : x \in Literals, y \in Literals}
    \cup {OptionalRule(x) : x \in Literals}
    \cup {RepetitionRule(b[1], b[2], x) : b \in Bounds, x \in Literals}
    \cup {OrRule(<<AndRule(<<x, y>>), x>>) : x \in Literals, y \in Literals}
    \cup {OrRule(<<OptionalRule(x), y>>) : x \in Literals, y \in Literals}
    \cup {AndRule(<<OptionalRule(x), x>>) : x \in Literals}
    \cup {RepetitionRule(b[1], b[2], OptionalRule(CaseSensitiveStringRule(s_a))) :
            b \in Bounds}
    \cup {RepetitionRule(b[1], b[2],
                         RepetitionRule(1, 1, CaseSensitiveStringRule(s_a))) :
            b \in Bounds}
    \cup {RepetitionRule(b[1], b[2],
                         RepetitionRule(0, 1, CaseSensitiveStringRule(s_a))) :
            b \in Bounds}
    \cup SharedCounterNodes

\* Tokens of a grammar text.
tk_r == <<114>>    \* r
tk_rule == <<114, 117, 108, 101>>    \* rule
tk_nope == <<110, 111, 112, 101>>    \* nope
tk_eq == <<61>>    \* =
tk_eqslash == <<61, 47>>    \* =/
tk_slash == <<47>>    \* /
tk_lparen == <<40>>    \* (
tk_rparen == <<41>>    \* )
tk_lbracket == <<91>>    \* [
tk_rbracket == <<93>>    \* ]
tk_comment == <<59, 32, 99>>    \* ; c
tk_qa == <<34, 97, 34>>    \* "a"
tk_qb == <<34, 98, 34>>    \* "b"
tk_qtest == <<34, 116, 101, 115, 116, 34>>    \* "test"
tk_sqTeSt == <<39, 84, 101, 83, 116, 39>>    \* 'TeSt'
tk_rep == <<50, 42, 51>>    \* 2*3
tk_x41_43 == <<37, 120, 52, 49, 45, 52, 51>>    \* %x41-43

\* Grammar texts of at most two tokens, on one line or on two.
ShortTexts ==
  LET alphabet == {tk_r, tk_eq, tk_eqslash, tk_comment, tk_qa}
  IN  {<<ts>> : ts \in SeqsUpTo(alphabet, 2)}
        \cup {<<<<x>>, <<y>>>> : x \in alphabet, y \in alphabet}

Alternatives == {tk_qa, tk_qb, tk_sqTeSt}

\* name = x / y  followed by  name =/ z
Continued(name, x, y, z) ==
  <<<<name, tk_eq, x, tk_slash, y>>, <<name, tk_eqslash, z>>>>

\* name = x / y / z
Inline(name, x, y, z) == <<<<name, tk_eq, x, tk_slash, y, tk_slash, z>>>>

ContinuedTexts ==
  {Continued(nm, x, y, z) :
     nm \in {tk_r, tk_rule}, x \in Alternatives, y \in Alternatives,
     z \in Alternatives}

InlineTexts ==
  {Inline(nm, x, y, z) :
     nm \in {tk_r, tk_rule}, x \in Alternatives, y \in Alternatives,
     z \in Alternatives}

\* The tokens a rule body is made of.
BodyTokens ==
  {tk_lparen, tk_rparen, tk_lbracket, tk_rbracket, tk_slash, tk_qa,
   tk_sqTeSt, tk_r, tk_nope, tk_rep, tk_x41_43}

MaxBody == 3     \* longest rule body handed to prepare

Bodies == SeqsUpTo(BodyTokens, MaxBody)

\* r = body, on one line.
OneRule(b) == <<<<tk_r, tk_eq>> \o b>>

\* r = 'TeSt'  and  r = "test"
SensitiveText == OneRule(<<tk_sqTeSt>>)
InsensitiveText == OneRule(<<tk_qtest>>)

\* The sample grammar (the abnf fixture), line by line, as the LEXER
\* fragments it.
tk_string == <<115, 116, 114, 105, 110, 103>>    \* string
tk_sensitive_string == <<115, 101, 110, 115, 105, 116, 105, 118, 101, 45, 115, 116, 114, 105, 110, 103>>    \* sensitive-string
tk_simple == <<115, 105, 109, 112, 108, 101>>    \* simple
tk_rule1 == <<114, 117, 108, 101, 49>>    \* rule1
tk_concat == <<99, 111, 110, 99, 97, 116>>    \* concat
tk_rule2 == <<114, 117, 108, 101, 50>>    \* rule2
tk_repetition == <<114, 101, 112, 101, 116, 105, 116, 105, 111, 110>>    \* repetition
tk_2star5 == <<50, 42, 53>>    \* 2*5
tk_star == <<42>>    \* *
tk_optional == <<111, 112, 116, 105, 111, 110, 97, 108>>    \* optional
tk_comment1 == <<59, 32, 116, 101, 115, 116, 32, 99, 111, 109, 109, 101, 110, 116>>    \* ; test comment
tk_alternatives == <<97, 108, 116, 101, 114, 110, 97, 116, 105, 118, 101, 115>>    \* alternatives
tk_long == <<108, 111, 110, 103>>    \* long
tk_rule3 == <<114, 117, 108, 101, 51>>    \* rule3
tk_rule4 == <<114, 117, 108, 101, 52>>    \* rule4
tk_comment2 == <<59, 32, 84, 104, 105, 115, 32, 105, 115, 32, 97, 32, 99, 111, 109, 112, 108, 101, 120, 32, 114, 117, 108, 101>>    \* ; This is a complex rule
tk_complex == <<99, 111, 109, 112, 108, 101, 120>>    \* complex
tk_rule4_1 == <<114, 117, 108, 101, 52, 45, 49>>    \* rule4-1
tk_rule4_2 == <<114, 117, 108, 101, 52, 45, 50>>    \* rule4-2
tk_rule4_3 == <<114, 117, 108, 101, 52, 45, 51>>    \* rule4-3
tk_rule5 == <<114, 117, 108, 101, 53>>    \* rule5
tk_rule6 == <<114, 117, 108, 101, 54>>    \* rule6
tk_comment3 == <<59, 32, 81, 117, 105, 116, 101, 32, 108, 111, 110, 103, 46, 46, 46>>    \* ; Quite long...
tk_rule7 == <<114, 117, 108, 101, 55>>    \* rule7
tk_rule8 == <<114, 117, 108, 101, 56>>    \* rule8
tk_rule9 == <<114, 117, 108, 101, 57>>    \* rule9
tk_rule10 == <<114, 117, 108, 101, 49, 48>>    \* rule10
tk_q_rule1 == <<34, 114, 117, 108, 101, 49, 34>>    \* "rule1"
tk_q_rule2 == <<34, 114, 117, 108, 101, 50, 34>>    \* "rule2"
tk_q_rule3 == <<34, 114, 117, 108, 101, 51, 34>>    \* "rule3"
tk_q_rule4_1 == <<34, 114, 117, 108, 101, 52, 46, 49, 34>>    \* "rule4.1"
tk_q_rule4_2 == <<34, 114, 117, 108, 101, 52, 46, 50, 34>>    \* "rule4.2"
tk_q_rule4_3 == <<34, 114, 117, 108, 101, 52, 46, 51, 34>>    \* "rule4.3"
tk_q_rule5 == <<34, 114, 117, 108, 101, 53, 34>>    \* "rule5"
tk_q_rule6 == <<34, 114, 117, 108, 101, 54, 34>>    \* "rule6"
tk_q_rule7 == <<34, 114, 117, 108, 101, 55, 34>>    \* "rule7"
tk_q_rule8 == <<34, 114, 117, 108, 101, 56, 34>>    \* "rule8"
tk_q_rule9 == <<34, 114, 117, 108, 101, 57, 34>>    \* "rule9"
tk_q_rule10 == <<34, 114, 117, 108, 101, 49, 48, 34>>    \* "rule10"

SampleGrammar ==
  <<
     <<tk_string, tk_eq, tk_qtest>>,
     <<tk_sensitive_string, tk_eq, tk_sqTeSt>>,
     <<tk_simple, tk_eq, tk_rule1>>,
     <<tk_concat, tk_eq, tk_rule1, tk_rule2>>,
     <<tk_repetition, tk_eq, tk_2star5, tk_rule1, tk_star, tk_rule2>>,
     <<tk_optional, tk_eq, tk_lbracket, tk_rule1, tk_rbracket, tk_rule2>>,
     <<tk_comment, tk_eq, tk_rule1, tk_comment1>>,
     <<tk_alternatives, tk_eq, tk_rule1, tk_slash, tk_rule2>>,
     <<tk_long, tk_eq, tk_rule1, tk_slash, tk_rule2>>,
     <<tk_long, tk_eqslash, tk_rule3, tk_slash, tk_rule4>>,
     <<>>,
     <<tk_comment2>>,
     <<tk_complex, tk_eq, tk_rule1, tk_rule2, tk_slash>>,
     <<tk_star, tk_rule2, tk_slash>>,
     <<tk_lbracket, tk_rule4_1, tk_rule4_2, tk_slash, tk_rule4_3, tk_rbracket, tk_lparen, tk_rule5, tk_slash, tk_rule6, tk_rparen, tk_slash, tk_comment3>>,
     <<tk_2star5, tk_lparen, tk_lbracket, tk_rule7, tk_rbracket, tk_lparen, tk_rule8, tk_slash, tk_rule9, tk_rparen, tk_rule10, tk_rparen>>,
     <<>>,
     <<>>,
     <<tk_rule1, tk_eq, tk_q_rule1>>,
     <<tk_rule2, tk_eq, tk_q_rule2>>,
     <<tk_rule3, tk_eq, tk_q_rule3>>,
     <<tk_rule4_1, tk_eq, tk_q_rule4_1>>,
     <<tk_rule4_2, tk_eq, tk_q_rule4_2>>,
     <<tk_rule4_3, tk_eq, tk_q_rule4_3>>,
     <<tk_rule5, tk_eq, tk_q_rule5>>,
     <<tk_rule6, tk_eq, tk_q_rule6>>,
     <<tk_rule7, tk_eq, tk_q_rule7>>,
     <<tk_rule8, tk_eq, tk_q_rule8>>,
     <<tk_rule9, tk_eq, tk_q_rule9>>,
     <<tk_rule10, tk_eq, tk_q_rule10>>
  >>

tk_s == <<115>>    \* s
tk_Foo == <<70, 111, 111>>    \* Foo
tk_foo == <<102, 111, 111>>    \* foo
tk_FOO == <<70, 79, 79>>    \* FOO

\* Two-rule grammars whose references point forward, backward, at the
\* rule itself and around a cycle.
ForwardText == <<<<tk_r, tk_eq, tk_s>>, <<tk_s, tk_eq, tk_qa>>>>
BackwardText == <<<<tk_s, tk_eq, tk_qa>>, <<tk_r, tk_eq, tk_s>>>>
SelfText == <<<<tk_r, tk_eq, tk_qa, tk_r>>>>
CycleText == <<<<tk_r, tk_eq, tk_qa, tk_s>>, <<tk_s, tk_eq, tk_qb, tk_r>>>>
ReferenceTexts == {ForwardText, BackwardText, SelfText, CycleText}

\* Foo = "a"  continued by  foo =/ "b"  and referred to as FOO.
MixedCaseText ==
  <<<<tk_Foo, tk_eq, tk_qa>>, <<tk_foo, tk_eqslash, tk_qb>>,
    <<tk_r, tk_eq, tk_FOO>>>>

Texts ==
  ShortTexts \cup ContinuedTexts \cup InlineTexts
    \cup {OneRule(b) : b \in SeqsUpTo(BodyTokens, 2)}
    \cup {SampleGrammar, MixedCaseText} \cup ReferenceTexts
    \cup {SensitiveText, InsensitiveText,
          <<<<tk_eq, tk_comment>>>>,
          <<<<tk_r, tk_eq, tk_qa, tk_comment>>, <<tk_slash, tk_qb>>>>}

\* The registry prepare is called with: the one rule r.
Registry == [x \in {tk_r} |-> Rule(tk_r, <<tk_r, tk_eq, tk_qa>>, 0).v]

\* The registry of the sample grammar: one Rule per name the bundled
\* Source groups tokens under, created as the registration pass creates
\* them.
SampleGroups == ABNFSource_bundled(SampleGrammar).v.tokensByRule

SampleRegistry ==
  [x \in {ToLowerCase(nm) : nm \in DOMAIN SampleGroups} |->
     LET nm == CHOOSE y \in DOMAIN SampleGroups : ToLowerCase(y) = x
     IN  Rule(nm, <<nm, tk_eq>> \o [k \in DOMAIN SampleGroups[nm] |->
                                       SampleGroups[nm][k].val], 0).v]

\* The body of a rule of the sample grammar.
SampleBody(nm) == SampleRegistry[nm].tokens

tk_sqa == <<39, 97, 39>>    \* 'a'
tk_sqb == <<39, 98, 39>>    \* 'b'

\* A grammar set up rule by rule: new Rule for every definition, stored
\* under its name, then prepare on each, as the constructor of Parser
\* orders it.  defs lists the definitions as <<name, body>>.
Grammar(defs, sp) ==
  LET names == [k \in DOMAIN defs |-> defs[k][1]]
      stubs == [x \in {names[k] : k \in DOMAIN names} |->
                  LET k == CHOOSE m \in DOMAIN defs : defs[m][1] = x
                  IN  Rule(x, <<x, tk_eq>> \o defs[k][2], k - 1).v]
  IN  PrepareAll(names, 1, stubs, sp)

\* The grammars parse is called on: r with a child of every node class,
\* with a reference to another rule, and with a reference to itself.
ParseGrammars ==
  {<<<<tk_r, b>>>> :
     b \in {<<tk_sqa>>, <<tk_qa>>, <<tk_sqa, tk_sqb>>,
            <<tk_sqa, tk_slash, tk_sqb>>, <<tk_lbracket, tk_sqa, tk_rbracket>>,
            <<tk_rep, tk_sqa>>, <<tk_r>>}}
    \cup {<<<<tk_r, <<tk_s>>>>, <<tk_s, <<tk_sqa>>>>>>}

\* Grammars whose rules refer to themselves or to each other: to the
\* right of a literal, at the very left, alone, and around a cycle.
RecursiveGrammars ==
  {<<<<tk_r, <<tk_sqa, tk_r, tk_slash, tk_sqa>>>>>>,
   <<<<tk_r, <<tk_r, tk_sqa, tk_slash, tk_sqa>>>>>>,
   <<<<tk_r, <<tk_r>>>>>>,
   <<<<tk_r, <<tk_sqa, tk_s, tk_slash, tk_sqb>>>>,
     <<tk_s, <<tk_sqb, tk_r, tk_slash, tk_sqa>>>>>>}

\* The callbacks objects parse is called with, and the call without one.
GeneratorsInputs ==
  {NoGenerators}
    \cup {Callbacks(K) :
            K \in SUBSET {BeforeKey(tk_r), tk_r, BeforeKey(tk_s), tk_s}}

tk_2star == <<50, 42>>    \* 2*
tk_star3 == <<42, 51>>    \* *3
tk_3 == <<51>>    \* 3

\* Repetition-count tokens of every form, and the bodies that put one in
\* front of a literal and of a literal followed by another.
RepTokens == {tk_star, tk_2star, tk_star3, tk_rep, tk_2star5, tk_3}
RepBodies ==
  {<<t, tk_sqa>> : t \in RepTokens} \cup {<<t, tk_sqa, tk_sqb>> : t \in RepTokens}

\* The registry as the registration pass keys it for the one rule Foo:
\* this.rules[ name ] with the name as written.
RegistryAsWritten ==
  [x \in {tk_Foo} |-> Rule(tk_Foo, <<tk_Foo, tk_eq, tk_qa>>, 0).v]

\* What prepare is called with: a body and the registry.
PrepareInputs ==
  {[body |-> b, rules |-> Registry] : b \in Bodies}
    \cup {[body |-> <<tk_FOO>>, rules |-> RegistryAsWritten]}
    \cup {[body |-> b, rules |-> Registry] : b \in RepBodies}
    \cup {[body |-> SampleBody(nm), rules |-> SampleRegistry] :
            nm \in {tk_simple, tk_concat, tk_complex}}

\* Numeric literal tokens: a base marker, then digit groups.
Groups(marker) ==
  IF marker = <<98>> THEN {<<49, 48, 48, 48, 48, 48, 49>>, <<49, 48, 48, 48, 48, 49, 49>>}
  ELSE IF marker = <<100>> THEN {<<54, 53>>, <<54, 55>>, <<55, 50>>}
  ELSE {<<52, 49>>, <<52, 51>>, <<52, 97>>}

Markers == {<<98>>, <<100>>, <<120>>}

\* %<marker><lo>-<hi>
RangeToken(marker, lo, hi) == <<37>> \o marker \o lo \o <<45>> \o hi

\* %<marker><g1>.<g2>
ConcatToken(marker, g1, g2) == <<37>> \o marker \o g1 \o <<46>> \o g2

RangeTokens ==
  UNION {{RangeToken(m, p[1], p[2]) : p \in Groups(m) \X Groups(m)} :
           m \in Markers}

tk_hello ==    \* %d72.101.108.108.111
  <<37, 100, 55, 50, 46, 49, 48, 49, 46, 49, 48, 56, 46, 49, 48, 56, 46,
    49, 49, 49>>
tk_x20 == <<37, 120, 50, 48>>    \* %x20

LiteralTokens ==
  RangeTokens
    \cup {tk_hello, tk_x20}
    \cup UNION {{<<37>> \o m \o g : g \in Groups(m)} : m \in Markers}
    \cup UNION {{ConcatToken(m, p[1], p[2]) : p \in Groups(m) \X Groups(m)} :
                  m \in Markers}

-----------------------------------------------------------------------------
(* The calls.                                                              *)

NoNode == [type |-> "none"]
NoRet == [t |-> "none"]

\* parser.test( code ): this.rules[ this.entry ].test( code, 0 )
Parser_test(parser, c, g) ==
  test(RuleRef(parser.entry), [code |-> c, rules |-> parser.rules], 0, g,
       MaxDepth)

Init ==
  /\ i \in {NoBinding, 0}
  /\ species \in BOOLEAN
  /\ op = "idle"
  /\ node = NoNode
  /\ code = <<>>
  /\ index = 0
  /\ text = <<>>
  /\ body = <<>>
  /\ registry = <<>>
  /\ arg = <<>>
  /\ generators = NoGenerators
  /\ ret = NoRet

\* node.test( code, index ) on a tree built from the exported node classes.
CallTest ==
  /\ op = "idle"
  /\ \E n \in Nodes, c \in Codes, idx \in 0..(MaxLen + 1) :
       LET r == test(n, [code |-> c, rules |-> <<>>], idx, i, MaxDepth)
       IN  /\ op' = "test"
           /\ node' = n
           /\ code' = c
           /\ index' = idx
           /\ ret' = r.res
           /\ i' = r.i
  /\ UNCHANGED <<species, text, body, registry, arg, generators>>

\* parseLiteral( arg )
CallParseLiteral ==
  /\ op = "idle"
  /\ \E tok \in LiteralTokens :
       /\ op' = "parseLiteral"
       /\ arg' = tok
       /\ ret' = parseLiteral(tok, species)
  /\ UNCHANGED <<i, species, node, code, index, text, body, registry, generators>>

\* new Source( src ) of lib/parser.js
NewSource ==
  /\ op = "idle"
  /\ \E t \in Texts :
       /\ op' = "Source"
       /\ text' = t
       /\ ret' = ABNFSource(t)
  /\ UNCHANGED <<i, species, node, code, index, body, registry, arg, generators>>

\* new Source( src, path ) of the bundle in part_001
NewBundledSource ==
  /\ op = "idle"
  /\ \E t \in Texts :
       /\ op' = "bundledSource"
       /\ text' = t
       /\ ret' = ABNFSource_bundled(t)
  /\ UNCHANGED <<i, species, node, code, index, body, registry, arg, generators>>

\* new Source$1( src, path ) of the bundle in part_002
NewSource1 ==
  /\ op = "idle"
  /\ \E t \in Texts :
       /\ op' = "Source1"
       /\ text' = t
       /\ ret' = Source1(t)
  /\ UNCHANGED <<i, species, node, code, index, body, registry, arg, generators>>

\* new Parser( src, entry ): compile
NewParser ==
  /\ op = "idle"
  /\ \E t \in Texts, entry \in {Undefined, tk_r} :
       /\ op' = "Parser"
       /\ text' = t
       /\ arg' = entry
       /\ ret' = ABNFParser(t, entry, species)
  /\ UNCHANGED <<i, species, node, code, index, body, registry, generators>>

\* new Rule( "r", [ "r", "=", ...body ] ).prepare( rules )
CallPrepare ==
  /\ op = "idle"
  /\ \E p \in PrepareInputs :
       \E rule \in {Rule(tk_r, <<tk_r, tk_eq>> \o p.body, 0).v} :
           /\ op' = "prepare"
           /\ body' = p.body
           /\ registry' = p.rules
           /\ ret' = prepare(rule, p.rules, species)
  /\ UNCHANGED <<i, species, node, code, index, text, arg, generators>>

\* rules.r.parse( code, generators ) on a grammar set up rule by rule
CallParse ==
  /\ op = "idle"
  /\ \E g \in ParseGrammars, gen \in GeneratorsInputs, c \in {<<>>, <<s_a>>} :
       \E rules \in {Grammar(g, species).v} :
         \E r \in {Rule_parse(rules[tk_r], rules, gen, <<>>, MaxDepth)} :
           /\ op' = "parse"
           /\ registry' = rules
           /\ code' = c
           /\ generators' = gen
           /\ ret' = r.r @@ [trace |-> r.trace]
  /\ UNCHANGED <<i, species, node, index, text, body, arg>>

\* rules.r.test( code, 0 ) on a grammar set up rule by rule
CallRuleTest ==
  /\ op = "idle"
  /\ \E g \in RecursiveGrammars \cup ParseGrammars,
        c \in {<<>>, <<s_a>>, <<s_b>>} :
       \E rules \in {Grammar(g, species).v} :
         \E r \in {test(RuleRef(tk_r), [code |-> c, rules |-> rules], 0, i,
                        MaxDepth)} :
           /\ op' = "ruleTest"
           /\ registry' = rules
           /\ node' = RuleRef(tk_r)
           /\ code' = c
           /\ ret' = r.res
           /\ i' = r.i
  /\ UNCHANGED <<species, index, text, body, arg, generators>>

\* The call is over; the global i stays as the call left it.
Return ==
  /\ op # "idle"
  /\ op' = "idle"
  /\ node' = NoNode
  /\ code' = <<>>
  /\ index' = 0
  /\ text' = <<>>
  /\ body' = <<>>
  /\ registry' = <<>>
  /\ arg' = <<>>
  /\ generators' = NoGenerators
  /\ ret' = NoRet
  /\ UNCHANGED <<i, species>>

Next ==
  \/ CallTest
  \/ CallParseLiteral
  \/ NewSource
  \/ NewBundledSource
  \/ NewSource1
  \/ CallPrepare
  \/ NewParser
  \/ CallParse
  \/ CallRuleTest
  \/ Return

Spec == Init /\ [][Next]_vars

-----------------------------------------------------------------------------
(* The claims about test.                                                  *)

\* The realm the finished call ran in: with or without a global i.
Realm == IF i = NoBinding THEN NoBinding ELSE 0

\* What test of a tree alone returns on the current input from position pos.
Alone(n, pos) ==
  test(n, [code |-> code, rules |-> <<>>], pos, Realm, MaxDepth).res

RECURSIVE Matches(_, _, _)
\* The lengths of the consecutive matches of a child from pos on, at most
\* limit of them.
Matches(child, pos, limit) ==
  IF limit = 0 THEN <<>>
  ELSE LET r == Alone(child, pos)
       IN  IF r.t = "number"
             THEN <<r.n>> \o Matches(child, pos + r.n, limit - 1)
             ELSE <<>>

RECURSIVE Sum(_)
Sum(q) == IF q = <<>> THEN 0 ELSE Head(q) + Sum(Tail(q))

\* C1: a Repetition with min <= max fails when fewer than min consecutive
\* child matches are available from the start index, and otherwise returns
\* the accumulated length of the first min(k, max) of them.
C1_RepetitionGreedyCapped ==
  (op = "test" /\ node.type = "repetition") =>
    LET cap == IF node.max = Infinity THEN MaxIter ELSE node.max
        ms == Matches(node.rule, index, cap)
    IN  ret = IF Len(ms) < node.min THEN False ELSE Num(Sum(ms))

\* C2: an Or returns the result of the first child, in declaration order,
\* that succeeds at the same index (a zero-length success included), and
\* the failure value only if every child fails there.
C2_OrFirstMatch ==
  (op = "test" /\ node.type = "or") =>
    LET rs == [k \in DOMAIN node.rules |-> Alone(node.rules[k], index)]
        won == {k \in DOMAIN rs : rs[k].t = "number"}
    IN  /\ won # {} =>
             ret = rs[CHOOSE k \in won : \A m \in won : k <= m]
        /\ ret = False => \A k \in DOMAIN rs : rs[k] = False

\* C4: a case-insensitive literal consumes exactly one element when the
\* element at the start index equals its string under case folding of both
\* sides, and fails otherwise.
C4_CaseInsensitiveFoldsBothSides ==
  (op = "test" /\ node.type = "case-insensitive-string" /\ index < Len(code)) =>
    ret = IF ToLowerCase(code[index + 1]) = ToLowerCase(node.str)
            THEN Num(1) ELSE False

\* C5: test returns a non-negative length or false for every tree, input
\* and start index, the indexes at and past the end of the input included;
\* it never throws.
C5_TestNeverThrows ==
  op = "test" => (ret.t \in {"number", "false"} /\ ret.n >= 0)

-----------------------------------------------------------------------------
(* The claims about compile.                                               *)

\* test of a compiled grammar succeeds on an input.
Succeeds(parser, c) == Parser_test(parser, c, Realm).res.t = "number"

\* test of a compiled grammar returns the failure value on an input.
Fails(parser, c) == Parser_test(parser, c, Realm).res = False

\* C3: the grammar r = 'TeSt' compiles to a grammar whose test fails on
\* test and succeeds on TeSt, and the grammar r = "test" to one whose test
\* succeeds on test and on TEST.
C3_QuotingCaseSensitivity ==
  /\ (op = "Parser" /\ text = SensitiveText) =>
       /\ ret.t = "ok"
       /\ Fails(ret.v, <<s_test>>)
       /\ Succeeds(ret.v, <<s_TeSt>>)
  /\ (op = "Parser" /\ text = InsensitiveText) =>
       /\ ret.t = "ok"
       /\ Succeeds(ret.v, <<s_test>>)
       /\ Succeeds(ret.v, <<s_TEST>>)

\* The inline grammar of a continued one.
InlineOf(t) == Inline(t[1][1], t[1][3], t[1][5], t[2][3])

\* The texts of the tokens of a group.
Vals(group) == [k \in DOMAIN group |-> group[k].val]

\* C6: name = x / y continued by name =/ z gives the one token group
\* x / y / z for that name, and compiles to the tree name = x / y / z
\* compiles to.
C6_ContinuationEqualsInline ==
  /\ (op = "Source" /\ text \in ContinuedTexts) =>
       /\ ret.t = "ok"
       /\ DOMAIN ret.v.tokensByRule = {text[1][1]}
       /\ Vals(ret.v.tokensByRule[text[1][1]]) =
            <<text[1][3], tk_slash, text[1][5], tk_slash, text[2][3]>>
  /\ (op = "Parser" /\ text \in ContinuedTexts) =>
       LET inline == ABNFParser(InlineOf(text), arg, species)
       IN  /\ ret.t = "ok"
           /\ inline.t = "ok"
           /\ ret.v.rules[ToLowerCase(text[1][1])].rule =
                inline.v.rules[ToLowerCase(text[1][1])].rule

\* Rule bodies with a reference to the undefined rule nope: at top level,
\* after another element, in a group, in an optional, after a repetition
\* count.
UndefinedReferenceBodies ==
  {<<tk_nope>>, <<tk_qa, tk_nope>>, <<tk_lparen, tk_nope, tk_rparen>>,
   <<tk_lbracket, tk_nope, tk_rbracket>>, <<tk_rep, tk_nope>>}

\* C7: resolving a body that refers to an undefined rule fails with the
\* undefined-rule error, whose message carries the identifier as written.
C7_UndefinedRuleNamed ==
  /\ (op = "prepare" /\ body \in UndefinedReferenceBodies) =>
       (ret.t = "throw" /\ ret.e = "ABNFSyntaxError" /\ ret.id = tk_nope)
  /\ (op = "Parser" /\ text \in {OneRule(b) : b \in UndefinedReferenceBodies}) =>
       (ret.t = "throw" /\ ret.e = "ABNFSyntaxError" /\ ret.id = tk_nope)

\* The number of tokens of a text that are no comments.
TokenCount(t) ==
  Len(SelectSeq(Flatten(t, 1), LAMBDA tok : ~IsComment(tok)))

\* C8: a text of fewer than 3 tokens, comments not counted, makes the
\* Source constructors and compile fail with a SyntaxError.
C8_FewerThanThreeTokens ==
  (op \in {"Source", "Source1", "Parser"} /\ TokenCount(text) < 3) =>
    (ret.t = "throw" /\ ret.e = "SyntaxError")

\* Rule bodies that open a group or an optional, never close one, and end
\* in an element.
UnterminatedBodies ==
  {b \in Bodies :
     /\ \A k \in DOMAIN b :
          b[k] \in {tk_lparen, tk_lbracket, tk_qa, tk_sqTeSt, tk_r, tk_slash}
     /\ \E k \in DOMAIN b : b[k] \in {tk_lparen, tk_lbracket}
     /\ b[Len(b)] \in {tk_qa, tk_sqTeSt, tk_r}}

\* C9: a body whose ( or [ is not closed before the tokens run out fails
\* to compile with a SyntaxError.
C9_UnterminatedGroupRejected ==
  /\ (op = "prepare" /\ body \in UnterminatedBodies) =>
       (ret.t = "throw" /\ ret.e = "SyntaxError")
  /\ (op = "Parser" /\ text \in {OneRule(b) : b \in UnterminatedBodies}) =>
       (ret.t = "throw" /\ ret.e = "SyntaxError")

RECURSIVE DigitsValue(_, _)
\* The number a digit group writes in a base.
DigitsValue(digits, base) ==
  IF digits = <<>> THEN 0
  ELSE DigitsValue(SubSeq(digits, 1, Len(digits) - 1), base) * base
         + DigitVal(digits[Len(digits)])

\* The two ends of a range token.
RangeLow(tok) ==
  DigitsValue(SubSeq(tok, 3, IndexOf(tok, 45)), BASES(<<tok[2]>>))
RangeHigh(tok) ==
  DigitsValue(SubSeq(tok, IndexOf(tok, 45) + 2, Len(tok)), BASES(<<tok[2]>>))

\* C10: a range literal expands to the case-sensitive literal of the
\* characters of every code from its minimum to its maximum, ascending;
\* %x41-43 expands to ABC.
C10_RangeLiteralExpands ==
  (op = "parseLiteral" /\ arg \in RangeTokens /\ RangeLow(arg) <= RangeHigh(arg)) =>
    /\ ret = Ok(CaseSensitiveStringRule(
                  [k \in 1..(RangeHigh(arg) - RangeLow(arg) + 1) |->
                     RangeLow(arg) + k - 1]))
    /\ arg = tk_x41_43 => ret = Ok(CaseSensitiveStringRule(<<65, 66, 67>>))

\* The codes the `.`-separated digit groups of a concatenation token write.
GroupCodes(tok) ==
  LET groups == Split(SubSeq(tok, 3, Len(tok)), 46)
  IN  [k \in DOMAIN groups |-> DigitsValue(groups[k], BASES(<<tok[2]>>))]

\* C11: a numeric literal in concatenation form (digit groups separated by
\* `.`, no `-`) expands to the case-sensitive literal of the characters of
\* its groups' codes in order; %d72.101.108.108.111 expands to Hello and
\* %x20 to the one space character.
C11_ConcatLiteralExpands ==
  (op = "parseLiteral" /\ IndexOf(arg, 45) = -1) =>
    /\ ret = Ok(CaseSensitiveStringRule(GroupCodes(arg)))
    /\ arg = tk_hello =>
         ret = Ok(CaseSensitiveStringRule(<<72, 101, 108, 108, 111>>))
    /\ arg = tk_x20 => ret = Ok(CaseSensitiveStringRule(<<32>>))

RECURSIVE NoSmallWrapper(_)
\* No And or Or node of the tree has fewer than two children.
NoSmallWrapper(n) ==
  CASE n.type \in {"or", "and"} ->
         /\ Len(n.rules) >= 2
         /\ \A k \in DOMAIN n.rules : NoSmallWrapper(n.rules[k])
    [] n.type \in {"optional", "repetition"} -> NoSmallWrapper(n.rule)
    [] OTHER -> TRUE

\* C12: the tree a rule body resolves to has no And or Or node of fewer
\* than two children; the body of `simple = rule1` resolves to the bare
\* reference to the registry entry of rule1.
C12_NoSingletonWrapper ==
  /\ (op = "prepare" /\ ret.t = "ok") => NoSmallWrapper(ret.v)
  /\ (op = "prepare" /\ body = SampleBody(tk_simple)) =>
       ret = Ok(RuleRef(tk_rule1))
  /\ (op = "prepare" /\ body = <<tk_r>>) => ret = Ok(RuleRef(tk_r))

\* The tree documented for the rule complex of the sample grammar.
ComplexTree ==
  OrRule(<<
    AndRule(<<RuleRef(tk_rule1), RuleRef(tk_rule2)>>),
    RepetitionRule(0, Infinity, RuleRef(tk_rule2)),
    AndRule(<<
      OptionalRule(OrRule(<<
        AndRule(<<RuleRef(tk_rule4_1), RuleRef(tk_rule4_2)>>),
        RuleRef(tk_rule4_3)>>)),
      OrRule(<<RuleRef(tk_rule5), RuleRef(tk_rule6)>>)>>),
    RepetitionRule(2, 5, AndRule(<<
      OptionalRule(RuleRef(tk_rule7)),
      OrRule(<<RuleRef(tk_rule8), RuleRef(tk_rule9)>>),
      RuleRef(tk_rule10)>>))>>)

\* C13: compiling the sample grammar gives the rule complex the documented
\* four-way alternation, and so does resolving its body against the
\* registry of the sample grammar.
C13_ComplexFixtureTree ==
  /\ (op = "Parser" /\ text = SampleGrammar) =>
       /\ ret.t = "ok"
       /\ ret.v.rules[tk_complex].rule = ComplexTree
  /\ (op = "prepare" /\ body = SampleBody(tk_complex)) =>
       ret = Ok(ComplexTree)

RECURSIVE ResolvedIn(_, _)
\* Every reference in the tree is an entry of keys.
ResolvedIn(n, keys) ==
  CASE n.type \in {"or", "and"} ->
         \A k \in DOMAIN n.rules : ResolvedIn(n.rules[k], keys)
    [] n.type \in {"optional", "repetition"} -> ResolvedIn(n.rule, keys)
    [] n.type = "named" -> n.name \in keys
    [] OTHER -> TRUE

\* C14: compile resolves every rule body against the registry that holds
\* every rule of the grammar, so a reference to a rule declared later,
\* earlier, to the rule itself or around a cycle resolves to that rule's
\* registry entry, whatever the declaration order.
C14_TwoPhaseRegistry ==
  /\ (op = "Parser" /\ text \in ReferenceTexts) =>
       /\ ret.t = "ok"
       /\ DOMAIN ret.v.rules = {text[k][1] : k \in DOMAIN text}
       /\ \A x \in DOMAIN ret.v.rules :
            ResolvedIn(ret.v.rules[x].rule, DOMAIN ret.v.rules)
  /\ (op = "prepare" /\ ret.t = "ok") => ResolvedIn(ret.v, DOMAIN registry)

\* C16: a definition, a continuation and a reference whose names differ
\* only in letter case denote one rule: Foo = "a" with foo =/ "b" is one
\* token group "a" / "b", the reference FOO resolves to that rule, and
\* the rule keeps the name as written.
C16_NamesCaseInsensitive ==
  /\ (op \in {"Source", "bundledSource"} /\ text = MixedCaseText) =>
       /\ ret.t = "ok"
       /\ \E x \in DOMAIN ret.v.tokensByRule :
            /\ ToLowerCase(x) = tk_foo
            /\ Vals(ret.v.tokensByRule[x]) = <<tk_qa, tk_slash, tk_qb>>
       /\ Cardinality({x \in DOMAIN ret.v.tokensByRule :
                         ToLowerCase(x) = tk_foo}) = 1
  /\ (op = "Parser" /\ text = MixedCaseText) =>
       /\ ret.t = "ok"
       /\ \E x \in DOMAIN ret.v.rules :
            /\ ToLowerCase(x) = tk_foo
            /\ ret.v.rules[x].originalName = tk_Foo
            /\ ret.v.rules[tk_r].rule = RuleRef(x)
  /\ (op = "prepare" /\ body = <<tk_FOO>> /\ registry = RegistryAsWritten) =>
       ret.t = "ok"

\* C15: parse of a rule invokes the callback registered under
\* "before " + name, when there is one, before anything else, parses the
\* child, and last invokes the callback registered under the name, when
\* there is one, with the child's result and the result of the first;
\* with either or both absent parse still returns a result, whatever the
\* class of the child.
C15_ParseCallbacks ==
  (op = "parse" /\ generators.given) =>
    /\ ret.t = "ok"
    /\ BeforeKey(tk_r) \in generators.keys =>
         ret.trace[1] = Invoked(BeforeKey(tk_r), <<tk_r>>)
    /\ tk_r \in generators.keys =>
         /\ ret.trace[Len(ret.trace)].key = tk_r
         /\ ret.trace[Len(ret.trace)].args[2] =
              IF BeforeKey(tk_r) \in generators.keys THEN Pre(tk_r) ELSE Null

\* The bounds a repetition-count token writes: N*M, with N and M left out
\* for 0 and unbounded, or a bare number for exactly that many.
CountMin(tok) ==
  IF IndexOf(tok, 42) = -1 THEN DigitsValue(tok, 10)
  ELSE DigitsValue(SubSeq(tok, 1, IndexOf(tok, 42)), 10)
CountMax(tok) ==
  IF IndexOf(tok, 42) = -1 THEN DigitsValue(tok, 10)
  ELSE IF IndexOf(tok, 42) = Len(tok) - 1 THEN Infinity
  ELSE DigitsValue(SubSeq(tok, IndexOf(tok, 42) + 2, Len(tok)), 10)

\* C17: a repetition-count token gives the Repetition node its bounds (`*`
\* 0 and unbounded, `N*` N and unbounded, `*M` 0 and M, `N*M` N and M, a
\* bare `N` N and N), and the node wraps exactly the next sub-rule.
C17_RepetitionBounds ==
  (op = "prepare" /\ body \in RepBodies) =>
    LET rep == RepetitionRule(CountMin(body[1]), CountMax(body[1]),
                              CaseSensitiveStringRule(s_a))
    IN  ret = Ok(IF Len(body) = 2 THEN rep
                 ELSE AndRule(<<rep, CaseSensitiveStringRule(s_b)>>))

RECURSIVE InOrder(_, _, _)
\* The children from the k-th on, each tested alone where the ones before
\* it ended: the summed length, or the failure value at the first child
\* that does not succeed.
InOrder(rules, k, len) ==
  IF k > Len(rules) THEN Num(len)
  ELSE LET r == Alone(rules[k], index + len)
       IN  IF r.t = "number" THEN InOrder(rules, k + 1, len + r.n)
           ELSE False

\* C18: an And tests its children in order, each at the start index plus
\* the lengths consumed before it, returns the sum of the lengths when all
\* succeed and the failure value as soon as one fails, without retrying an
\* earlier child; And[Optional(x), x] fails on an input holding one x.
C18_AndInOrderNoBacktracking ==
  /\ (op = "test" /\ node.type = "and") => ret = InOrder(node.rules, 1, 0)
  /\ \A x \in Literals :
       (/\ op = "test"
        /\ node = AndRule(<<OptionalRule(x), x>>)
        /\ code = <<x.str>>
        /\ index = 0) => ret = False

\* A Repetition with a finite max whose child is a Repetition itself.
Nested(n) ==
  n.type = "repetition" /\ n.max # Infinity /\ n.rule.type = "repetition"

\* C19: test keeps its working state to itself.  The count of a
\* Repetition is not changed by the Repetition nested in its child, so
\* (where the loop runs at all, the realm having a binding i) the outer
\* node returns what its child's matches, each evaluated on its own, add
\* up to; and a test that returns leaves the realm as it found it, the
\* global binding i included.
C19_TestStateIsLocal ==
  /\ [](Nested(node) /\ op = "test" /\ i # NoBinding =>
          LET ms == Matches(node.rule, index, node.max)
          IN  ret = IF Len(ms) < node.min THEN False ELSE Num(Sum(ms)))
  /\ [][op' = "test" /\ ret'.t \in {"number", "false"} => i' = i]_vars

RECURSIVE Nullable(_)
\* The node can succeed without consuming input, going by what the node
\* classes are specified to match; a reference is taken not to.
Nullable(n) ==
  CASE n.type = "optional" -> TRUE
    [] n.type = "repetition" -> n.min = 0 \/ Nullable(n.rule)
    [] n.type = "and" -> \A k \in DOMAIN n.rules : Nullable(n.rules[k])
    [] n.type = "or" -> \E k \in DOMAIN n.rules : Nullable(n.rules[k])
    [] OTHER -> FALSE

RECURSIVE HazardFree(_)
\* No Repetition of the tree has a child that can succeed with zero length.
HazardFree(n) ==
  CASE n.type = "repetition" -> ~Nullable(n.rule) /\ HazardFree(n.rule)
    [] n.type = "optional" -> HazardFree(n.rule)
    [] n.type \in {"and", "or"} ->
         \A k \in DOMAIN n.rules : HazardFree(n.rules[k])
    [] OTHER -> TRUE

\* The call returned or threw within the bounds the input sets: the loop
\* ended and the stack was not exhausted.
Bounded(r) == r.t # "hang" /\ ~(r.t = "throw" /\ r.e = "RangeError")

RECURSIVE FirstRefs(_)
\* The rules a tree refers to before any input is consumed.
FirstRefs(n) ==
  CASE n.type = "named" -> {n.name}
    [] n.type \in {"optional", "repetition"} -> FirstRefs(n.rule)
    [] n.type = "or" -> UNION {FirstRefs(n.rules[k]) : k \in DOMAIN n.rules}
    [] n.type = "and" ->
         UNION {FirstRefs(n.rules[k]) :
                  k \in {m \in DOMAIN n.rules :
                           \A j \in 1..(m - 1) : Nullable(n.rules[j])}}
    [] OTHER -> {}

RECURSIVE LeftReach(_, _, _)
\* The rules reached from the names in at most k such steps.
LeftReach(names, rules, k) ==
  IF k = 0 THEN {}
  ELSE LET next == UNION {FirstRefs(rules[x].rule) : x \in names}
       IN  next \cup LeftReach(next, rules, k - 1)

\* Some rule reaches itself before any input is consumed.
LeftRecursive(rules) ==
  \E x \in DOMAIN rules : x \in LeftReach({x}, rules, Cardinality(DOMAIN rules))

\* C20: on a tree, or a grammar of rules that refer to themselves and to
\* each other behind a consumed element, in which no Repetition's child
\* can succeed with zero length, test ends on every input and start index,
\* its evaluation bounded by the input.
C20_TestTerminates ==
  /\ (op = "test" /\ HazardFree(node)) => Bounded(ret)
  /\ (op = "ruleTest"
         /\ ~LeftRecursive(registry)
         /\ \A x \in DOMAIN registry : HazardFree(registry[x].rule)) =>
       Bounded(ret)

-----------------------------------------------------------------------------
(* C21: a success never reports more than the input that is left.          *)

RECURSIVE SubTrees(_, _, _)
\* The node n and every node under it, a reference followed into the
\* registry; k bounds the references followed in a row.
SubTrees(n, rules, k) ==
  {n} \cup
    CASE n.type \in {"or", "and"} ->
           UNION {SubTrees(n.rules[m], rules, k) : m \in DOMAIN n.rules}
      [] n.type \in {"optional", "repetition"} -> SubTrees(n.rule, rules, k)
      [] n.type = "named" ->
           IF k = 0 \/ n.name \notin DOMAIN rules THEN {}
           ELSE SubTrees(rules[n.name].rule, rules, k - 1)
      [] OTHER -> {}

\* The result r of a test at index idx of the sequence c, if a success, is
\* an integer from 0 to the number of elements from idx on.
WithinInput(r, c, idx) ==
  r.t = "number" => r.n \in 0..(Len(c) - idx)

\* The global i a test can be entered with: absent, or a number, which a
\* Repetition overwrites with 0 before it reads it.
CallTest_i == {NoBinding, 0}

\* C21: for every tree, every input sequence of length L and every start
\* index from 0 to L, a success value of test is an integer n with
\* 0 <= n <= L - index, and so is the success value of every node under
\* the tree tested at any index from 0 to L.
C21_SuccessWithinInput ==
  (op \in {"test", "ruleTest"} /\ index <= Len(code)) =>
    /\ WithinInput(ret, code, index)
    /\ \A sub \in SubTrees(node, registry, Cardinality(DOMAIN registry)),
          j \in 0..Len(code), g \in CallTest_i :
         WithinInput(test(sub, [code |-> code, rules |-> registry], j, g,
                          MaxDepth).res, code, j)

\* A Repetition without upper bound, started behind the first element,
\* consumes the two elements that are left, and no more.
C21_Witness ==
  /\ op = "test"
  /\ node.type = "repetition" /\ node.max = Infinity
  /\ index = 1 /\ Len(code) = 3
  /\ ret = Num(2)

=============================================================================
